---- MODULE Spec2Model ----
(***************************************************************************)
(* Membership / training-compliance tracker (rachelconrey/ss_app_capstone). *)
(*                                                                         *)
(* The model is the relational store (training_status_data, personal_data, *)
(* training_course_data) and the statements the program runs against it:   *)
(* the start-up pass update_training_statuses (src/app.py), the training   *)
(* operations of CRUDManager (src/libs/crud_manager.py) and the button     *)
(* handlers of server_training_data (src/apps/training/training_data.py).  *)
(*                                                                         *)
(* Every conn.execute is one step, so that a statement can fail between    *)
(* two others and so that the order of the statements is observable.  The  *)
(* handlers of one Shiny process are synchronous functions on one event    *)
(* loop: one operation is in flight at a time.                             *)
(*                                                                         *)
(* Transactions: db is the committed store.  A connection sees db overlaid *)
(* with its own uncommitted writes (PostgreSQL READ COMMITTED); the writes *)
(* are kept in tx and reach db at commit.  _update_member_eligibility      *)
(* opens a second connection (engine.begin() on the pool while the         *)
(* caller's connection is checked out): it reads db, not the caller's      *)
(* writes, and commits on its own.                                         *)
(*                                                                         *)
(* Table constraints are those of create_training_status_data.py (foreign  *)
(* keys, UNIQUE (userid, courseid)) except where the program's own         *)
(* statements contradict the DDL: completion_date is nullable (the         *)
(* statements test it for NULL), and the columns due_date, status and      *)
(* personal_data.eligibility exist.                                        *)
(*                                                                         *)
(* Specifications: Spec is the start-up pass, the training operations and  *)
(* add_member; SpecAll adds the deletion of members and                    *)
(* TrainingCRUDManager; SpecNoFk starts from a store with a row whose      *)
(* course is not in the catalog; SpecConc runs two processes of the        *)
(* application against one database; SpecMember is the management of       *)
(* members statement by statement; SpecDash is the reads of the dashboard  *)
(* and of the member table next to the operations that change what they    *)
(* show; SpecSession is one session: login, page_content and the           *)
(* initialization of the component server functions.                       *)
(***************************************************************************)
EXTENDS Integers, Sequences, FiniteSets, TLC

VARIABLES
    phase,     \* "startup" | "serving" | "exited"  (src/app.py __main__)
    catalog,   \* training_course_data: courseid -> frequency_in_months
    today,     \* CURRENT_DATE
    db,        \* committed store: [recs: id -> row, elig: userid -> eligibility]
    nextId,    \* training_status_data.id SERIAL: the next value of the sequence
    pc,        \* the next statement of the operation in flight, or "idle"
    tx,        \* the operation in flight and the uncommitted writes of its connection
    pre,       \* the committed store when the last operation began
    last,      \* what the last step reported to its caller
    login,     \* login_data: the userids that have a login row (committed)
    other,     \* a second process of the application: its pc, tx, pre and last
    personal,  \* personal_data: userid -> first_name, last_name, email (committed)
    hashed,    \* login_data: the userids whose stored password is a pbkdf2 hash
    session,   \* the reactive values of one Shiny session and what it has rendered
    cache      \* DashboardMetrics._cache["member_metrics"]

vars == <<phase, catalog, today, db, nextId, pc, tx, pre, last, login, other,
          personal, hashed, session, cache>>

NULL == "NULL"
\* NULL in a date column (TLC compares values of one kind only).
NullDate == [y |-> 0, m |-> 0, d |-> 0]

\* The serial id of training_status_data hands out the values up to MaxId.
MaxId == 2

\* The login attempts of one session that are followed.
MaxLogins == 2

Users == {"u1", "u2"}
Courses == {"A", "B"}

\* The variables of the user interface and of the member's names.
ui == <<personal, hashed, session, cache>>

EmptyFn == [x \in {} |-> NULL]

(***************************************************************************)
(* Member names.  A name is the sequence of its characters, so that the    *)
(* userid add_member generates is computed from them; the empty sequence   *)
(* is the empty string of an input left blank.                             *)
(***************************************************************************)
FirstNames == {<<"U", "m", "a">>, <<"u", "l", "a">>}
LastNames == {<<"1">>, <<"2">>}
Emails == {"e"}

Person(first, surname, email) ==
    [first_name |-> first, last_name |-> surname, email |-> email]

\* The rows of personal_data the store starts with.
PersonOf(u) ==
    IF u = "u1" THEN Person(<<"U", "m", "a">>, <<"1">>, "e")
    ELSE Person(<<"U", "m", "a">>, <<"2">>, "e")

Zeros == [total |-> 0, eligible |-> 0, ineligible |-> 0]

\* What a session starts with: nobody is logged in, nothing is rendered
\* (page_content is still to run: stale), no component server function has
\* been called.
NoSession ==
    [is_authenticated |-> FALSE, initialized |-> FALSE, login_attempt |-> 0,
     stale |-> TRUE, page |-> "none",
     calls |-> [personal |-> 0, dashboard |-> 0, training |-> 0],
     metrics |-> Zeros, member_data |-> EmptyFn,
     username |-> NULL, password |-> NULL]

\* DashboardMetrics._cache = {}
NoCache == [set |-> FALSE, metrics |-> Zeros, fresh |-> FALSE]

NoUi ==
    /\ personal = [u \in DOMAIN db.elig |-> PersonOf(u)]
    /\ hashed = {}
    /\ session = NoSession
    /\ cache = NoCache

(***************************************************************************)
(* Dates.  completion_date + n * INTERVAL '1 month' moves the month and    *)
(* keeps the day of the month, clamped to the length of the target month.  *)
(***************************************************************************)
D(y, m, d) == [y |-> y, m |-> m, d |-> d]

IsLeap(y) == (y % 4 = 0 /\ y % 100 # 0) \/ y % 400 = 0

DaysInMonth(y, m) ==
    IF m = 2 THEN (IF IsLeap(y) THEN 29 ELSE 28)
    ELSE IF m \in {4, 6, 9, 11} THEN 30 ELSE 31

Min(a, b) == IF a <= b THEN a ELSE b

AddMonthsNoCarry(date, n) == D(date.y, ((date.m - 1 + n) % 12) + 1, date.d)

AddMonths(date, n) ==
    LET total == date.y * 12 + (date.m - 1) + n
        y2 == total \div 12
        m2 == (total % 12) + 1
    IN D(y2, m2, Min(date.d, DaysInMonth(y2, m2)))

DateGT(a, b) ==
    \/ a.y > b.y
    \/ a.y = b.y /\ a.m > b.m
    \/ a.y = b.y /\ a.m = b.m /\ a.d > b.d

\* CAST(a AS DATE) >= b
DateGE(a, b) ==
    \/ a.y > b.y
    \/ a.y = b.y /\ a.m > b.m
    \/ a.y = b.y /\ a.m = b.m /\ a.d >= b.d

CompletionDates == {D(2023, 1, 15)}
Todays == {D(2023, 2, 15), D(2024, 2, 1)}

Catalogs == {EmptyFn, ("A" :> 12), ("A" :> 12) @@ ("B" :> 1)}

(***************************************************************************)
(* Rows and the store.                                                     *)
(***************************************************************************)
Row(u, c, comp, due, st) ==
    [userid |-> u, courseid |-> c, completion_date |-> comp,
     due_date |-> due, status |-> st]

Store(recs, elig) == [recs |-> recs, elig |-> elig]

\* What the tables hold when the program is first started: member u1, and
\* either no training row or one row whose completion date is not recorded.
Seeds ==
    { Store(EmptyFn, ("u1" :> "Ineligible")),
      Store((1 :> Row("u1", "A", NullDate, NullDate, NULL)), ("u1" :> "Ineligible")) }

\* gone: the rows of personal_data the connection has deleted; nologin: the
\* rows of login_data it has deleted; res: what the call will return;
\* newlogin, person: the rows of login_data and personal_data it has inserted.
NoTx == [op |-> "none", user |-> NULL, id |-> 0,
         recs |-> EmptyFn, del |-> {}, elig |-> EmptyFn, ran |-> <<>>,
         gone |-> {}, nologin |-> {}, res |-> "ok",
         newlogin |-> {}, person |-> EmptyFn]

BeginTx(op, user, id) == [NoTx EXCEPT !.op = op, !.user = user, !.id = id]

\* What a connection with uncommitted writes t reads.
ViewRecs(d, t) ==
    LET ids == (DOMAIN d.recs \cup DOMAIN t.recs) \ t.del
    IN [i \in ids |-> IF i \in DOMAIN t.recs THEN t.recs[i] ELSE d.recs[i]]

ViewElig(d, t) ==
    [u \in DOMAIN d.elig \ t.gone |->
        IF u \in DOMAIN t.elig THEN t.elig[u] ELSE d.elig[u]]

View(d, t) == Store(ViewRecs(d, t), ViewElig(d, t))

Ev(op, res, id, user, ran) ==
    [op |-> op, res |-> res, id |-> id, user |-> user, ran |-> ran]

NoEv == Ev("none", "none", 0, NULL, <<>>)

\* A second process that is not running any call.
NoOther == [pc |-> "idle", tx |-> NoTx, last |-> NoEv, mixed |-> FALSE]

(***************************************************************************)
(* The statements of update_training_statuses.                             *)
(***************************************************************************)
DueDateQueryFromDue(recs) ==
    LET hit == {i \in DOMAIN recs :
                  /\ recs[i].courseid \in DOMAIN catalog
                  /\ recs[i].completion_date # NullDate}
    IN [i \in hit |->
          [recs[i] EXCEPT !.due_date =
              AddMonths(IF recs[i].due_date # NullDate THEN recs[i].due_date
                        ELSE recs[i].completion_date,
                        catalog[recs[i].courseid])]]

DueDateQueryMovesCompletion(recs) ==
    LET hit == {i \in DOMAIN recs :
                  /\ recs[i].courseid \in DOMAIN catalog
                  /\ recs[i].completion_date # NullDate}
    IN [i \in hit |->
          [recs[i] EXCEPT !.completion_date =
              AddMonths(recs[i].completion_date, catalog[recs[i].courseid])]]

\* due_date_query: the rows it updates, with their new value.
DueDateQuery(recs) ==
    LET hit == {i \in DOMAIN recs :
                  /\ recs[i].courseid \in DOMAIN catalog
                  /\ recs[i].completion_date # NullDate}
    IN [i \in hit |->
          [recs[i] EXCEPT !.due_date =
              AddMonths(recs[i].completion_date, catalog[recs[i].courseid])]]

StatusCase(row) ==
    IF row.completion_date = NullDate THEN NULL
    ELSE IF row.due_date # NullDate /\ DateGE(row.due_date, today) THEN "Current"
    ELSE "Overdue"

\* status_query
StatusQuery(recs) ==
    LET hit == {i \in DOMAIN recs : recs[i].completion_date # NullDate}
    IN [i \in hit |-> [recs[i] EXCEPT !.status = StatusCase(recs[i])]]

\* The CASE of eligibility_query for one row p of personal_data.
AnyOverdueCase(recs, u) ==
    IF \E i \in DOMAIN recs : recs[i].userid = u /\ recs[i].status = "Overdue"
    THEN "Ineligible" ELSE "Eligible"

AllCoursesCase(recs, u) ==
    IF ~ \E c \in DOMAIN catalog :
           ~ \E i \in DOMAIN recs :
                /\ recs[i].userid = u
                /\ recs[i].courseid = c
                /\ recs[i].status = "Current"
    THEN "Eligible" ELSE "Ineligible"

\* eligibility_query: every row of personal_data
EligibilityQuery(recs, members) == [u \in members |-> AllCoursesCase(recs, u)]

\* The three statements of update_training_statuses in the order it executes
\* them, as a function of the store.
RecomputeAll(d) ==
    LET r1 == DueDateQuery(d.recs) @@ d.recs
        r2 == StatusQuery(r1) @@ r1
    IN Store(r2, EligibilityQuery(r2, DOMAIN d.elig))

(***************************************************************************)
(* Order of the statements of an operation.                                *)
(***************************************************************************)
NextStmtStatusFirst(op, stmt) ==
    CASE stmt = "begin" -> (IF op = "delete_training" THEN "delete" ELSE "status")
      [] stmt = "status" -> "due"
      [] stmt = "due" -> "elig"
      [] stmt = "delete" -> "elig"
      [] OTHER -> "commit"

\* update_training_statuses, add_training, update_training: due date, status,
\* eligibility, commit.  delete_training: DELETE, eligibility, commit.
NextStmt(op, stmt) ==
    CASE stmt = "begin" -> (IF op = "delete_training" THEN "delete" ELSE "due")
      [] stmt = "due" -> "status"
      [] stmt = "status" -> "elig"
      [] stmt = "delete" -> "elig"
      [] OTHER -> "commit"

Idle == pc = "idle"

Ran(stmt) == [tx EXCEPT !.ran = Append(@, stmt)]

(***************************************************************************)
(* update_training_statuses, run by __main__ before app.run.               *)
(***************************************************************************)
UtsBegin ==
    /\ Idle /\ phase = "startup"
    /\ tx' = BeginTx("update_training_statuses", NULL, 0)
    /\ pc' = NextStmt("update_training_statuses", "begin")
    /\ pre' = db
    /\ last' = NoEv
    /\ UNCHANGED <<phase, catalog, today, db, nextId, login, other, ui>>

UtsDue ==
    /\ tx.op = "update_training_statuses" /\ pc = "due"
    /\ tx' = [Ran("due") EXCEPT !.recs = DueDateQuery(ViewRecs(db, tx)) @@ @]
    /\ pc' = NextStmt(tx.op, "due")
    /\ UNCHANGED <<phase, catalog, today, db, nextId, pre, last, login, other, ui>>

UtsStatus ==
    /\ tx.op = "update_training_statuses" /\ pc = "status"
    /\ tx' = [Ran("status") EXCEPT !.recs = StatusQuery(ViewRecs(db, tx)) @@ @]
    /\ pc' = NextStmt(tx.op, "status")
    /\ UNCHANGED <<phase, catalog, today, db, nextId, pre, last, login, other, ui>>

UtsElig ==
    /\ tx.op = "update_training_statuses" /\ pc = "elig"
    /\ tx' = [Ran("elig") EXCEPT
                !.elig = EligibilityQuery(ViewRecs(db, tx), DOMAIN db.elig)]
    /\ pc' = NextStmt(tx.op, "elig")
    /\ UNCHANGED <<phase, catalog, today, db, nextId, pre, last, login, other, ui>>

UtsCommit ==
    /\ tx.op = "update_training_statuses" /\ pc = "commit"
    /\ db' = View(db, tx)
    /\ last' = Ev(tx.op, "ok", 0, NULL, tx.ran)
    /\ tx' = NoTx
    /\ pc' = "done"
    /\ phase' = "serving"
    /\ UNCHANGED <<catalog, today, nextId, pre, login, other, ui>>

(***************************************************************************)
(* The statements of CRUDManager.                                          *)
(***************************************************************************)
\* _validate_data: the required fields that are missing (not data.get(field)).
MissingFields(data, required) ==
    {f \in required :
        data[f] = (IF f = "completion_date" THEN NullDate
                   ELSE IF f \in {"first_name", "last_name"} THEN <<>>
                   ELSE NULL)}

InsertAllowedNoFk(recs, members, u, c) ==
    ~ \E i \in DOMAIN recs : recs[i].userid = u /\ recs[i].courseid = c

InsertAllowedNoUnique(recs, members, u, c) ==
    /\ u \in members
    /\ c \in DOMAIN catalog

\* INSERT INTO training_status_data: the foreign keys (userid REFERENCES
\* login_data, courseid REFERENCES training_course_data) and UNIQUE (userid,
\* courseid).
InsertAllowed(recs, members, u, c) ==
    /\ u \in members
    /\ c \in DOMAIN catalog
    /\ ~ \E i \in DOMAIN recs : recs[i].userid = u /\ recs[i].courseid = c

\* "Update due date" of add_training / update_training, for the row :id.
DueOne(row) ==
    [row EXCEPT !.due_date =
        IF row.completion_date # NullDate /\ row.courseid \in DOMAIN catalog
        THEN AddMonths(row.completion_date, catalog[row.courseid])
        ELSE NullDate]

\* "Update status" of add_training / update_training, for the row :id.
StatusOne(row) ==
    [row EXCEPT !.status =
        IF row.due_date # NullDate /\ DateGE(row.due_date, today)
        THEN "Current" ELSE "Overdue"]

\* The CASE of _update_member_eligibility.
MemberEligibilityCase(recs, u) ==
    IF \E i \in DOMAIN recs : recs[i].userid = u /\ recs[i].status = "Overdue"
    THEN "Ineligible"
    ELSE IF ~ \E i \in DOMAIN recs : recs[i].userid = u
    THEN "Ineligible"
    ELSE "Eligible"

\* The CASE of update_eligibility_query in delete_training.
DeleteEligibilityCase(recs, u) ==
    IF \E i \in DOMAIN recs :
          recs[i].userid = u /\ (recs[i].status = "Overdue" \/ recs[i].status = NULL)
    THEN "Ineligible"
    ELSE IF \E i \in DOMAIN recs : recs[i].userid = u /\ recs[i].status = "Current"
    THEN "Eligible"
    ELSE "Ineligible"

\* The rows _update_member_eligibility reads: it runs on a connection of its
\* own, which sees the committed store and not the caller's open transaction.
EligibilityReads(d, t) == d.recs

UpdateEveryMemberEligibility(d, t, u) ==
    [d EXCEPT !.elig =
        [m \in DOMAIN d.elig |-> MemberEligibilityCase(EligibilityReads(d, t), m)]]

\* _update_member_eligibility(userid): UPDATE personal_data ... WHERE userid = :userid,
\* committed by its own engine.begin().
UpdateMemberEligibility(d, t, u) ==
    [d EXCEPT !.elig =
        [m \in DOMAIN d.elig |->
            IF m = u THEN MemberEligibilityCase(EligibilityReads(d, t), u)
            ELSE d.elig[m]]]

(***************************************************************************)
(* CRUDManager.add_training                                                *)
(***************************************************************************)
AddTrainingInvalid(u, c, comp) ==
    /\ Idle /\ phase = "serving"
    /\ MissingFields([userid |-> u, courseid |-> c, completion_date |-> comp],
                     {"userid", "courseid", "completion_date"}) # {}
    /\ pre' = db
    /\ last' = Ev("add_training", "raised", 0, u, <<>>)
    /\ pc' = "done"
    /\ UNCHANGED <<phase, catalog, today, db, nextId, tx, login, other, ui>>

AddTrainingInsert(u, c, comp) ==
    /\ Idle /\ phase = "serving"
    /\ MissingFields([userid |-> u, courseid |-> c, completion_date |-> comp],
                     {"userid", "courseid", "completion_date"}) = {}
    /\ nextId <= MaxId
    /\ nextId' = nextId + 1
    /\ pre' = db
    /\ IF InsertAllowed(db.recs, login, u, c)
       THEN /\ tx' = [BeginTx("add_training", u, nextId) EXCEPT
                        !.recs = (nextId :> Row(u, c, comp, NullDate, NULL))]
            /\ pc' = NextStmt("add_training", "begin")
            /\ last' = NoEv
       ELSE /\ last' = Ev("add_training", "raised", 0, u, <<>>)
            /\ pc' = "done"
            /\ UNCHANGED tx
    /\ UNCHANGED <<phase, catalog, today, db, login, other, ui>>

AddTrainingDue ==
    /\ tx.op = "add_training" /\ pc = "due"
    /\ tx' = [Ran("due") EXCEPT !.recs = (tx.id :> DueOne(ViewRecs(db, tx)[tx.id])) @@ @]
    /\ pc' = NextStmt(tx.op, "due")
    /\ UNCHANGED <<phase, catalog, today, db, nextId, pre, last, login, other, ui>>

AddTrainingStatus ==
    /\ tx.op = "add_training" /\ pc = "status"
    /\ tx' = [Ran("status") EXCEPT
                !.recs = (tx.id :> StatusOne(ViewRecs(db, tx)[tx.id])) @@ @]
    /\ pc' = NextStmt(tx.op, "status")
    /\ UNCHANGED <<phase, catalog, today, db, nextId, pre, last, login, other, ui>>

AddTrainingElig ==
    /\ tx.op = "add_training" /\ pc = "elig"
    /\ db' = UpdateMemberEligibility(db, tx, tx.user)
    /\ tx' = Ran("elig")
    /\ pc' = NextStmt(tx.op, "elig")
    /\ UNCHANGED <<phase, catalog, today, nextId, pre, last, login, other, ui>>

AddTrainingCommit ==
    /\ tx.op = "add_training" /\ pc = "commit"
    /\ db' = View(db, tx)
    /\ last' = Ev(tx.op, "ok", tx.id, tx.user, tx.ran)
    /\ tx' = NoTx
    /\ pc' = "done"
    /\ UNCHANGED <<phase, catalog, today, nextId, pre, login, other, ui>>

(***************************************************************************)
(* CRUDManager.update_training                                             *)
(***************************************************************************)
UpdateTrainingBegin(id, comp) ==
    /\ Idle /\ phase = "serving"
    /\ pre' = db
    /\ IF id \in DOMAIN db.recs
       THEN /\ tx' = [BeginTx("update_training", db.recs[id].userid, id) EXCEPT
                        !.recs = (id :> [db.recs[id] EXCEPT !.completion_date = comp])]
            /\ pc' = NextStmt("update_training", "begin")
            /\ last' = NoEv
       ELSE /\ last' = Ev("update_training", "false", id, NULL, <<>>)
            /\ pc' = "done"
            /\ UNCHANGED tx
    /\ UNCHANGED <<phase, catalog, today, db, nextId, login, other, ui>>

UpdateTrainingDue ==
    /\ tx.op = "update_training" /\ pc = "due"
    /\ tx' = [Ran("due") EXCEPT !.recs = (tx.id :> DueOne(ViewRecs(db, tx)[tx.id])) @@ @]
    /\ pc' = NextStmt(tx.op, "due")
    /\ UNCHANGED <<phase, catalog, today, db, nextId, pre, last, login, other, ui>>

UpdateTrainingStatus ==
    /\ tx.op = "update_training" /\ pc = "status"
    /\ tx' = [Ran("status") EXCEPT
                !.recs = (tx.id :> StatusOne(ViewRecs(db, tx)[tx.id])) @@ @]
    /\ pc' = NextStmt(tx.op, "status")
    /\ UNCHANGED <<phase, catalog, today, db, nextId, pre, last, login, other, ui>>

UpdateTrainingElig ==
    /\ tx.op = "update_training" /\ pc = "elig"
    /\ db' = UpdateMemberEligibility(db, tx, tx.user)
    /\ tx' = Ran("elig")
    /\ pc' = NextStmt(tx.op, "elig")
    /\ UNCHANGED <<phase, catalog, today, nextId, pre, last, login, other, ui>>

UpdateTrainingCommit ==
    /\ tx.op = "update_training" /\ pc = "commit"
    /\ db' = View(db, tx)
    /\ last' = Ev(tx.op, "ok", tx.id, tx.user, tx.ran)
    /\ tx' = NoTx
    /\ pc' = "done"
    /\ UNCHANGED <<phase, catalog, today, nextId, pre, login, other, ui>>

(***************************************************************************)
(* CRUDManager.delete_training                                             *)
(***************************************************************************)
DeleteTrainingBegin(id) ==
    /\ Idle /\ phase = "serving"
    /\ pre' = db
    /\ IF id \in DOMAIN db.recs
       THEN /\ tx' = BeginTx("delete_training", db.recs[id].userid, id)
            /\ pc' = NextStmt("delete_training", "begin")
            /\ last' = NoEv
       ELSE /\ last' = Ev("delete_training", "false", id, NULL, <<>>)
            /\ pc' = "done"
            /\ UNCHANGED tx
    /\ UNCHANGED <<phase, catalog, today, db, nextId, login, other, ui>>

DeleteTrainingDelete ==
    /\ tx.op = "delete_training" /\ pc = "delete"
    /\ tx' = [tx EXCEPT !.del = @ \cup {tx.id}]
    /\ pc' = NextStmt(tx.op, "delete")
    /\ UNCHANGED <<phase, catalog, today, db, nextId, pre, last, login, other, ui>>

DeleteTrainingElig ==
    /\ tx.op = "delete_training" /\ pc = "elig"
    /\ tx' = [Ran("elig") EXCEPT
                !.elig = [u \in {tx.user} \cap DOMAIN db.elig |->
                            DeleteEligibilityCase(ViewRecs(db, tx), u)]]
    /\ pc' = NextStmt(tx.op, "elig")
    /\ UNCHANGED <<phase, catalog, today, db, nextId, pre, last, login, other, ui>>

DeleteTrainingCommit ==
    /\ tx.op = "delete_training" /\ pc = "commit"
    /\ db' = View(db, tx)
    /\ last' = Ev(tx.op, "ok", tx.id, tx.user, tx.ran)
    /\ tx' = NoTx
    /\ pc' = "done"
    /\ UNCHANGED <<phase, catalog, today, nextId, pre, login, other, ui>>

(***************************************************************************)
(* A statement or the commit raises: the with-block rolls the connection   *)
(* back and the exception reaches the caller.  What a second connection    *)
(* has committed stays committed.                                          *)
(***************************************************************************)
RollbackAndServe ==
    /\ last' = Ev(tx.op, "raised", tx.id, tx.user, tx.ran)
    /\ tx' = NoTx
    /\ pc' = "done"
    /\ phase' = "serving"
    /\ UNCHANGED <<catalog, today, db, nextId, pre, login, other, ui>>

RollbackSwallowed ==
    /\ last' = Ev(tx.op, "ok", tx.id, tx.user, tx.ran)
    /\ tx' = NoTx
    /\ pc' = "done"
    /\ phase' = IF tx.op = "update_training_statuses" THEN "exited" ELSE phase
    /\ UNCHANGED <<catalog, today, db, nextId, pre, login, other, ui>>

RollbackKeepsLogin ==
    /\ last' = Ev(tx.op, "raised", tx.id, tx.user, tx.ran)
    /\ tx' = NoTx
    /\ pc' = "done"
    /\ phase' = IF tx.op = "update_training_statuses" THEN "exited" ELSE phase
    /\ login' = login \cup tx.newlogin
    /\ UNCHANGED <<catalog, today, db, nextId, pre, other, ui>>

Rollback ==
    /\ last' = Ev(tx.op, "raised", tx.id, tx.user, tx.ran)
    /\ tx' = NoTx
    /\ pc' = "done"
    /\ phase' = IF tx.op = "update_training_statuses" THEN "exited" ELSE phase
    /\ UNCHANGED <<catalog, today, db, nextId, pre, login, other, ui>>

StatementFails ==
    /\ pc \in {"due", "status", "elig", "delete",
              "del_training", "del_personal", "del_login",
              "ins_login", "ins_personal"}
    /\ Rollback

CommitFails ==
    /\ pc = "commit"
    /\ Rollback

(***************************************************************************)
(* The button handlers of server_training_data.                            *)
(***************************************************************************)
HandleAddTraining(u, c, comp) ==
    /\ Idle /\ phase = "serving"
    /\ nextId <= MaxId
    /\ nextId' = nextId + 1
    /\ pre' = db
    /\ IF InsertAllowed(db.recs, login, u, c)
       THEN /\ db' = [db EXCEPT !.recs = (nextId :> Row(u, c, comp, NullDate, "Current")) @@ @]
            /\ last' = Ev("handle_add_training", "ok", nextId, u, <<>>)
       ELSE /\ last' = Ev("handle_add_training", "raised", 0, u, <<>>)
            /\ UNCHANGED db
    /\ pc' = "done"
    /\ UNCHANGED <<phase, catalog, today, tx, login, other, ui>>

HandleUpdateTraining(id, comp) ==
    /\ Idle /\ phase = "serving"
    /\ pre' = db
    /\ db' = [db EXCEPT !.recs =
                [i \in DOMAIN db.recs |->
                    IF i = id THEN [db.recs[i] EXCEPT !.completion_date = comp]
                    ELSE db.recs[i]]]
    /\ last' = Ev("handle_update_training", "ok", id,
                  IF id \in DOMAIN db.recs THEN db.recs[id].userid ELSE NULL, <<>>)
    /\ pc' = "done"
    /\ UNCHANGED <<phase, catalog, today, nextId, tx, login, other, ui>>

HandleDeleteTraining(id) ==
    /\ Idle /\ phase = "serving"
    /\ pre' = db
    /\ db' = [db EXCEPT !.recs = [i \in DOMAIN db.recs \ {id} |-> db.recs[i]]]
    /\ last' = Ev("handle_delete_training", "ok", id,
                  IF id \in DOMAIN db.recs THEN db.recs[id].userid ELSE NULL, <<>>)
    /\ pc' = "done"
    /\ UNCHANGED <<phase, catalog, today, nextId, tx, login, other, ui>>

(***************************************************************************)
(* TrainingCRUDManager.add_training_record: one engine.connect() with one  *)
(* commit at the end, no validation.  After the INSERT it calls the        *)
(* database function update_training_statuses(), whose text is not in the  *)
(* repository: it is taken to be the full recompute the specification      *)
(* describes.                                                              *)
(***************************************************************************)
SqlUpdateTrainingStatuses(d) == RecomputeAll(d)

AddTrainingRecord(u, c, comp) ==
    /\ Idle /\ phase = "serving"
    /\ nextId <= MaxId
    /\ nextId' = nextId + 1
    /\ pre' = db
    /\ IF InsertAllowed(db.recs, login, u, c)
       THEN /\ db' = SqlUpdateTrainingStatuses(
                        [db EXCEPT !.recs = (nextId :> Row(u, c, comp, NullDate, NULL)) @@ @])
            /\ last' = Ev("add_training_record", "ok", nextId, u, <<"sql">>)
       ELSE /\ last' = Ev("add_training_record", "raised", 0, u, <<>>)
            /\ UNCHANGED db
    /\ pc' = "done"
    /\ UNCHANGED <<phase, catalog, today, tx, login, other, ui>>

\* TrainingCRUDManager.update_training_record: UPDATE ... WHERE id = :id
\* RETURNING true, then the database function and the commit, whether or
\* not a row was updated; the result is bool(result.scalar()).
UpdateTrainingRecord(id, comp) ==
    /\ Idle /\ phase = "serving"
    /\ pre' = db
    /\ db' = SqlUpdateTrainingStatuses(
                [db EXCEPT !.recs =
                    [i \in DOMAIN db.recs |->
                        IF i = id THEN [db.recs[i] EXCEPT !.completion_date = comp]
                        ELSE db.recs[i]]])
    /\ last' = Ev("update_training_record",
                  IF id \in DOMAIN db.recs THEN "ok" ELSE "false", id,
                  IF id \in DOMAIN db.recs THEN db.recs[id].userid ELSE NULL, <<"sql">>)
    /\ pc' = "done"
    /\ UNCHANGED <<phase, catalog, today, nextId, tx, login, other, ui>>

\* TrainingCRUDManager.delete_training_record: DELETE ... WHERE id = :id
\* RETURNING true, then the database function and the commit.
DeleteTrainingRecord(id) ==
    /\ Idle /\ phase = "serving"
    /\ pre' = db
    /\ db' = SqlUpdateTrainingStatuses(
                [db EXCEPT !.recs = [i \in DOMAIN db.recs \ {id} |-> db.recs[i]]])
    /\ last' = Ev("delete_training_record",
                  IF id \in DOMAIN db.recs THEN "ok" ELSE "false", id,
                  IF id \in DOMAIN db.recs THEN db.recs[id].userid ELSE NULL, <<"sql">>)
    /\ pc' = "done"
    /\ UNCHANGED <<phase, catalog, today, nextId, tx, login, other, ui>>

(***************************************************************************)
(* Environment: the date moves on, the process is started again, members   *)
(* are created.                                                            *)
(***************************************************************************)
\* The call has returned: the caller goes on.
Return ==
    /\ pc = "done"
    /\ pc' = "idle"
    /\ last' = NoEv
    /\ pre' = db
    /\ UNCHANGED <<phase, catalog, today, db, nextId, tx, login, other, ui>>

Tick ==
    /\ Idle
    /\ \E t \in Todays : ~ DateGE(today, t) /\ today' = t
    /\ UNCHANGED <<phase, catalog, db, nextId, pc, tx, pre, last, login, other, ui>>

Restart ==
    /\ Idle /\ phase \in {"serving", "exited"}
    /\ phase' = "startup"
    /\ UNCHANGED <<catalog, today, db, nextId, pc, tx, pre, last, login, other, ui>>

\* CRUDManager.add_member: a row of login_data and a row of personal_data,
\* the latter 'Ineligible'.
AddMember(u) ==
    /\ Idle /\ phase = "serving"
    /\ u \notin DOMAIN db.elig /\ u \notin login
    /\ pre' = db
    /\ db' = [db EXCEPT !.elig = (u :> "Ineligible") @@ @]
    /\ login' = login \cup {u}
    /\ personal' = (u :> PersonOf(u)) @@ personal
    /\ last' = Ev("add_member", "ok", 0, u, <<>>)
    /\ pc' = "done"
    /\ UNCHANGED <<phase, catalog, today, nextId, tx, other, hashed, session, cache>>

(***************************************************************************)
(* CRUDManager.delete_member: one engine.begin() transaction.  The member  *)
(* is found by personal_data.id; the model names it by its userid.         *)
(***************************************************************************)
MemberRows(recs, u) == {i \in DOMAIN recs : recs[i].userid = u}

DeleteMemberBegin(u) ==
    /\ Idle /\ phase = "serving"
    /\ pre' = db
    /\ IF u \in DOMAIN db.elig
       THEN /\ tx' = BeginTx("delete_member", u, 0)
            /\ pc' = "del_training"
            /\ last' = NoEv
       ELSE /\ last' = Ev("delete_member", "false", 0, u, <<>>)
            /\ pc' = "done"
            /\ UNCHANGED tx
    /\ UNCHANGED <<phase, catalog, today, db, nextId, login, other, ui>>

DeleteMemberTraining ==
    /\ tx.op = "delete_member" /\ pc = "del_training"
    /\ tx' = [tx EXCEPT !.del = @ \cup MemberRows(ViewRecs(db, tx), tx.user)]
    /\ pc' = "del_personal"
    /\ UNCHANGED <<phase, catalog, today, db, nextId, pre, last, login, other, ui>>

\* "if not personal_result.scalar(): return False" leaves the with-block
\* normally: what was deleted so far is committed.
DeleteMemberPersonal ==
    /\ tx.op = "delete_member" /\ pc = "del_personal"
    /\ IF tx.user \in DOMAIN ViewElig(db, tx)
       THEN /\ tx' = [tx EXCEPT !.gone = @ \cup {tx.user}]
            /\ pc' = "del_login"
       ELSE /\ tx' = [tx EXCEPT !.res = "false"]
            /\ pc' = "commit"
    /\ UNCHANGED <<phase, catalog, today, db, nextId, pre, last, login, other, ui>>

DeleteMemberLoginKept ==
    /\ tx.op = "delete_member" /\ pc = "del_login"
    /\ tx' = [tx EXCEPT !.res = IF tx.user \in login THEN "ok" ELSE "false"]
    /\ pc' = "commit"
    /\ UNCHANGED <<phase, catalog, today, db, nextId, pre, last, login, other, ui>>

\* DELETE FROM login_data cascades to what is left of the member's rows of
\* personal_data and training_status_data (ON DELETE CASCADE).
DeleteMemberLogin ==
    /\ tx.op = "delete_member" /\ pc = "del_login"
    /\ tx' = [tx EXCEPT !.nologin = @ \cup ({tx.user} \cap login),
                        !.del = @ \cup (IF tx.user \in login
                                        THEN MemberRows(ViewRecs(db, tx), tx.user)
                                        ELSE {}),
                        !.gone = @ \cup ({tx.user} \cap login),
                        !.res = IF tx.user \in login THEN "ok" ELSE "false"]
    /\ pc' = "commit"
    /\ UNCHANGED <<phase, catalog, today, db, nextId, pre, last, login, other, ui>>

DeleteMemberCommit ==
    /\ tx.op = "delete_member" /\ pc = "commit"
    /\ db' = View(db, tx)
    /\ login' = login \ tx.nologin
    /\ hashed' = hashed \ tx.nologin
    /\ personal' = [m \in DOMAIN personal \ tx.gone |-> personal[m]]
    /\ last' = Ev(tx.op, tx.res, 0, tx.user, <<>>)
    /\ tx' = NoTx
    /\ pc' = "done"
    /\ UNCHANGED <<phase, catalog, today, nextId, pre, other, session, cache>>

(***************************************************************************)
(* MemberCRUDManager.delete_member: one engine.connect() with one commit   *)
(* at the end.  DELETE FROM login_data cascades to the member's rows of    *)
(* personal_data and training_status_data (ON DELETE CASCADE), so that the *)
(* DELETE FROM personal_data ... RETURNING true that follows finds no row  *)
(* and success is False.  An unknown id gives userid None: nothing matches *)
(* and success is False as well.                                           *)
(***************************************************************************)
MemberDeleteMember(u) ==
    /\ Idle /\ phase = "serving"
    /\ pre' = db
    /\ LET found == u \in DOMAIN db.elig
           cascade == found /\ u \in login
           rows == IF found THEN MemberRows(db.recs, u) ELSE {}
       IN /\ db' = Store([i \in DOMAIN db.recs \ rows |-> db.recs[i]],
                         [m \in DOMAIN db.elig \ (IF found THEN {u} ELSE {}) |->
                             db.elig[m]])
          /\ login' = login \ (IF found THEN {u} ELSE {})
          /\ hashed' = hashed \ (IF found THEN {u} ELSE {})
          /\ personal' = [m \in DOMAIN personal \ (IF found THEN {u} ELSE {}) |->
                             personal[m]]
          /\ last' = Ev("member_delete_member",
                        IF found /\ ~ cascade THEN "ok" ELSE "false", 0, u, <<>>)
    /\ pc' = "done"
    /\ UNCHANGED <<phase, catalog, today, nextId, tx, other, session, cache>>

(***************************************************************************)
(* add_member of CRUDManager (one engine.begin() through                   *)
(* _execute_transaction) and of MemberCRUDManager (one engine.connect()    *)
(* with one commit at the end): INSERT INTO login_data, then INSERT INTO   *)
(* personal_data, for the userid generated from the names.                 *)
(***************************************************************************)
MemberInputs ==
    [first_name : FirstNames \cup {<<>>}, last_name : LastNames \cup {<<>>},
     email : Emails \cup {NULL}]

MemberFields == {"first_name", "last_name", "email"}

\* str.lower() on the characters the names are written with.
Lower(ch) == IF ch = "U" THEN "u" ELSE ch

\* f"{member_data['first_name'][0].lower()}{member_data['last_name'].lower()}"
GeneratedUserid(data) ==
    <<Lower(data.first_name[1])>> \o
        [i \in 1 .. Len(data.last_name) |-> Lower(data.last_name[i])]

\* The userid written with these characters.
UseridOf(chars) ==
    IF chars = <<"u", "1">> THEN "u1"
    ELSE IF chars = <<"u", "2">> THEN "u2"
    ELSE IF chars = <<"U", "1">> THEN "U1"
    ELSE "U2"

AddMemberOps == {"add_member", "member_add_member"}

AddMemberInvalid(data) ==
    /\ Idle /\ phase = "serving"
    /\ MissingFields(data, MemberFields) # {}
    /\ pre' = db
    /\ last' = Ev("add_member", "raised", 0, NULL, <<>>)
    /\ pc' = "done"
    /\ UNCHANGED <<phase, catalog, today, db, nextId, tx, login, other, ui>>

AddMemberBegin(data) ==
    /\ Idle /\ phase = "serving"
    /\ MissingFields(data, MemberFields) = {}
    /\ pre' = db
    /\ tx' = [BeginTx("add_member", UseridOf(GeneratedUserid(data)), 0) EXCEPT
                !.person = (UseridOf(GeneratedUserid(data)) :> data)]
    /\ pc' = "ins_login"
    /\ last' = NoEv
    /\ UNCHANGED <<phase, catalog, today, db, nextId, login, other, ui>>

MemberAddMemberInvalid(data) ==
    /\ Idle /\ phase = "serving"
    /\ MissingFields(data, MemberFields) # {}
    /\ pre' = db
    /\ last' = Ev("member_add_member", "raised", 0, NULL, <<>>)
    /\ pc' = "done"
    /\ UNCHANGED <<phase, catalog, today, db, nextId, tx, login, other, ui>>

MemberAddMemberBegin(data) ==
    /\ Idle /\ phase = "serving"
    /\ MissingFields(data, MemberFields) = {}
    /\ pre' = db
    /\ tx' = [BeginTx("member_add_member", UseridOf(GeneratedUserid(data)), 0) EXCEPT
                !.person = (UseridOf(GeneratedUserid(data)) :> data)]
    /\ pc' = "ins_login"
    /\ last' = NoEv
    /\ UNCHANGED <<phase, catalog, today, db, nextId, login, other, ui>>

\* INSERT INTO login_data: userid is UNIQUE.
InsertLogin ==
    /\ tx.op \in AddMemberOps /\ pc = "ins_login"
    /\ IF tx.user \in login
       THEN Rollback
       ELSE /\ tx' = [tx EXCEPT !.newlogin = {tx.user}]
            /\ pc' = "ins_personal"
            /\ UNCHANGED <<phase, catalog, today, db, nextId, pre, last, login, other, ui>>

\* INSERT INTO personal_data ... 'Ineligible': userid is UNIQUE.
InsertPersonal ==
    /\ tx.op \in AddMemberOps /\ pc = "ins_personal"
    /\ IF tx.user \in DOMAIN personal
       THEN Rollback
       ELSE /\ tx' = [tx EXCEPT !.elig = (tx.user :> "Ineligible")]
            /\ pc' = "commit"
            /\ UNCHANGED <<phase, catalog, today, db, nextId, pre, last, login, other, ui>>

AddMemberCommit ==
    /\ tx.op \in AddMemberOps /\ pc = "commit"
    /\ db' = [db EXCEPT !.elig = tx.elig @@ @]
    /\ login' = login \cup tx.newlogin
    /\ personal' = [u \in DOMAIN tx.elig |-> tx.person[u]] @@ personal
    /\ last' = Ev(tx.op, "ok", 0, tx.user, <<>>)
    /\ tx' = NoTx
    /\ pc' = "done"
    /\ UNCHANGED <<phase, catalog, today, nextId, pre, other, hashed, session, cache>>

(***************************************************************************)
(* update_member of CRUDManager and of MemberCRUDManager: the required     *)
(* fields are tested, then one UPDATE personal_data ... WHERE id = :id     *)
(* RETURNING true, committed.  The member is named by its userid.          *)
(***************************************************************************)
UpdateMember(u, data) ==
    /\ Idle /\ phase = "serving"
    /\ pre' = db
    /\ IF MissingFields(data, MemberFields) # {}
       THEN /\ last' = Ev("update_member", "raised", 0, u, <<>>)
            /\ UNCHANGED personal
       ELSE /\ personal' = [m \in DOMAIN personal |-> IF m = u THEN data ELSE personal[m]]
            /\ last' = Ev("update_member",
                          IF u \in DOMAIN personal THEN "ok" ELSE "false", 0, u, <<>>)
    /\ pc' = "done"
    /\ UNCHANGED <<phase, catalog, today, db, nextId, tx, login, other,
                   hashed, session, cache>>

MemberUpdateMember(u, data) ==
    /\ Idle /\ phase = "serving"
    /\ pre' = db
    /\ IF MissingFields(data, MemberFields) # {}
       THEN /\ last' = Ev("member_update_member", "raised", 0, u, <<>>)
            /\ UNCHANGED personal
       ELSE /\ personal' = [m \in DOMAIN personal |-> IF m = u THEN data ELSE personal[m]]
            /\ last' = Ev("member_update_member",
                          IF u \in DOMAIN personal THEN "ok" ELSE "false", 0, u, <<>>)
    /\ pc' = "done"
    /\ UNCHANGED <<phase, catalog, today, db, nextId, tx, login, other,
                   hashed, session, cache>>

Init ==
    /\ phase = "startup"
    /\ catalog \in Catalogs
    /\ today \in Todays
    /\ db \in {s \in Seeds : \A i \in DOMAIN s.recs : s.recs[i].courseid \in DOMAIN catalog}
    /\ nextId = 2
    /\ pc = "idle"
    /\ tx = NoTx
    /\ pre = db
    /\ last = NoEv
    /\ login = DOMAIN db.elig
    /\ NoUi
    /\ other = NoOther

Ids == 1 .. MaxId

Next ==
    \/ UtsBegin \/ UtsDue \/ UtsStatus \/ UtsElig \/ UtsCommit
    \/ \E u \in Users, c \in Courses, comp \in CompletionDates \cup {NullDate} :
          \/ AddTrainingInvalid(u, c, comp)
          \/ AddTrainingInsert(u, c, comp)
          \/ HandleAddTraining(u, c, comp)
    \/ AddTrainingDue \/ AddTrainingStatus \/ AddTrainingElig \/ AddTrainingCommit
    \/ \E id \in Ids, comp \in CompletionDates \cup {NullDate} :
          \/ UpdateTrainingBegin(id, comp)
          \/ HandleUpdateTraining(id, comp)
    \/ UpdateTrainingDue \/ UpdateTrainingStatus \/ UpdateTrainingElig
    \/ UpdateTrainingCommit
    \/ \E id \in Ids : DeleteTrainingBegin(id) \/ HandleDeleteTraining(id)
    \/ DeleteTrainingDelete \/ DeleteTrainingElig \/ DeleteTrainingCommit
    \/ StatementFails \/ CommitFails
    \/ Return \/ Tick \/ Restart
    \/ \E u \in Users : AddMember(u)

\* The start-up pass, the training operations of CRUDManager, the handlers
\* of server_training_data and add_member.
Spec == Init /\ [][Next]_vars

\* The same with the deletion of members and TrainingCRUDManager.
NextAll ==
    \/ Next
    \/ \E u \in Users : DeleteMemberBegin(u) \/ MemberDeleteMember(u)
    \/ DeleteMemberTraining \/ DeleteMemberPersonal \/ DeleteMemberLogin
    \/ DeleteMemberCommit
    \/ \E u \in Users, c \in Courses, comp \in CompletionDates \cup {NullDate} :
          AddTrainingRecord(u, c, comp)
    \/ \E id \in Ids, comp \in CompletionDates \cup {NullDate} :
          UpdateTrainingRecord(id, comp)
    \/ \E id \in Ids : DeleteTrainingRecord(id)

\* One course in the catalog; the stores of Init that go with it.
InitAll ==
    /\ phase = "startup"
    /\ catalog = ("A" :> 12)
    /\ today \in Todays
    /\ db \in Seeds
    /\ nextId = 2
    /\ pc = "idle"
    /\ tx = NoTx
    /\ pre = db
    /\ last = NoEv
    /\ login = DOMAIN db.elig
    /\ NoUi
    /\ other = NoOther

SpecAll == InitAll /\ [][NextAll]_vars

\* The tables when a training row names a course that training_course_data
\* does not hold (a row that predates the foreign key).
SeedsNoFk ==
    { Store((1 :> Row("u1", "B", D(2023, 1, 15), NullDate, NULL)),
            ("u1" :> "Ineligible")) }

InitNoFk ==
    /\ phase = "startup"
    /\ catalog = ("A" :> 12)
    /\ today \in Todays
    /\ db \in SeedsNoFk
    /\ nextId = 2
    /\ pc = "idle"
    /\ tx = NoTx
    /\ pre = db
    /\ last = NoEv
    /\ login = DOMAIN db.elig
    /\ NoUi
    /\ other = NoOther

SpecNoFk == InitNoFk /\ [][Next]_vars

(***************************************************************************)
(* The management of members, with add_training and update_training of     *)
(* CRUDManager.  login_data may hold a row without a row of personal_data  *)
(* (an account that is not a member).                                      *)
(***************************************************************************)
InitMember ==
    /\ phase = "serving"
    /\ catalog = ("A" :> 12)
    /\ today = D(2023, 2, 15)
    /\ db \in Seeds
    /\ nextId = 2
    /\ pc = "idle"
    /\ tx = NoTx
    /\ pre = db
    /\ last = NoEv
    /\ login \in {DOMAIN db.elig, DOMAIN db.elig \cup {"u2"}}
    /\ other = NoOther
    /\ NoUi

NextMember ==
    \/ \E data \in MemberInputs :
          \/ AddMemberInvalid(data) \/ AddMemberBegin(data)
          \/ MemberAddMemberInvalid(data) \/ MemberAddMemberBegin(data)
    \/ InsertLogin \/ InsertPersonal \/ AddMemberCommit
    \/ \E u \in Users, data \in MemberInputs :
          UpdateMember(u, data) \/ MemberUpdateMember(u, data)
    \/ \E u \in Users : DeleteMemberBegin(u) \/ MemberDeleteMember(u)
    \/ DeleteMemberTraining \/ DeleteMemberPersonal \/ DeleteMemberLogin
    \/ DeleteMemberCommit
    \/ \E u \in Users, c \in Courses, comp \in CompletionDates \cup {NullDate} :
          AddTrainingInvalid(u, c, comp) \/ AddTrainingInsert(u, c, comp)
    \/ AddTrainingDue \/ AddTrainingStatus \/ AddTrainingElig \/ AddTrainingCommit
    \/ \E id \in Ids, comp \in CompletionDates \cup {NullDate} :
          UpdateTrainingBegin(id, comp)
    \/ UpdateTrainingDue \/ UpdateTrainingStatus \/ UpdateTrainingElig
    \/ UpdateTrainingCommit
    \/ StatementFails \/ CommitFails
    \/ Return

SpecMember == InitMember /\ [][NextMember]_vars

(***************************************************************************)
(* What the user interface reads.  DashboardMetrics.get_member_metrics     *)
(* keeps its last result in a class attribute for CACHE_DURATION and       *)
(* answers from it; a query that fails gives zeros, which are not cached.  *)
(* fetch_member_data puts the rows of personal_data, cleaned, in the       *)
(* reactive value member_data; a query that fails gives an empty frame.    *)
(***************************************************************************)
\* SELECT COUNT(*), SUM(CASE WHEN eligibility = ...) FROM personal_data
CountMembers(elig) ==
    [total |-> Cardinality(DOMAIN elig),
     eligible |-> Cardinality({u \in DOMAIN elig : elig[u] = "Eligible"}),
     ineligible |-> Cardinality({u \in DOMAIN elig : elig[u] = "Ineligible"})]

\* cache_key in cls._cache and datetime.now() - timestamp < cls.CACHE_DURATION
CacheHit(c) == c.set /\ c.fresh

GetMemberMetrics ==
    /\ Idle /\ phase = "serving"
    /\ pre' = db
    /\ IF CacheHit(cache)
       THEN /\ session' = [session EXCEPT !.metrics = cache.metrics]
            /\ last' = Ev("get_member_metrics", "ok", 0, NULL, <<"cache">>)
            /\ UNCHANGED cache
       ELSE \/ /\ cache' = [set |-> TRUE, metrics |-> CountMembers(db.elig),
                             fresh |-> TRUE]
               /\ session' = [session EXCEPT !.metrics = CountMembers(db.elig)]
               /\ last' = Ev("get_member_metrics", "ok", 0, NULL, <<"query">>)
            \/ /\ session' = [session EXCEPT !.metrics = Zeros]
               /\ last' = Ev("get_member_metrics", "failed", 0, NULL, <<"query">>)
               /\ UNCHANGED cache
    /\ pc' = "done"
    /\ UNCHANGED <<phase, catalog, today, db, nextId, tx, login, other,
                   personal, hashed>>

\* CACHE_DURATION has passed since the result was cached.
CacheExpires ==
    /\ Idle /\ cache.set /\ cache.fresh
    /\ cache' = [cache EXCEPT !.fresh = FALSE]
    /\ UNCHANGED <<phase, catalog, today, db, nextId, pc, tx, pre, last, login,
                   other, personal, hashed, session>>

\* _clean_member_data: first_name and last_name in lower case.
CleanMemberData(row) ==
    [row EXCEPT !.first_name = [i \in 1 .. Len(@) |-> Lower(@[i])],
                !.last_name = [i \in 1 .. Len(@) |-> Lower(@[i])]]

\* MEMBER_QUERY: the rows of personal_data with their eligibility.
MemberQuery ==
    [u \in DOMAIN db.elig |->
        [first_name |-> personal[u].first_name, last_name |-> personal[u].last_name,
         email |-> personal[u].email, eligibility |-> db.elig[u]]]

FetchMemberData ==
    /\ Idle /\ phase = "serving"
    /\ pre' = db
    /\ \/ /\ session' = [session EXCEPT !.member_data =
                             [u \in DOMAIN MemberQuery |-> CleanMemberData(MemberQuery[u])]]
          /\ last' = Ev("fetch_member_data", "ok", 0, NULL, <<>>)
       \/ /\ session' = [session EXCEPT !.member_data = EmptyFn]
          /\ last' = Ev("fetch_member_data", "failed", 0, NULL, <<>>)
    /\ pc' = "done"
    /\ UNCHANGED <<phase, catalog, today, db, nextId, tx, login, other,
                   personal, hashed, cache>>

InitDash ==
    /\ phase = "serving"
    /\ catalog = ("A" :> 12)
    /\ today = D(2023, 2, 15)
    /\ db \in Seeds
    /\ nextId = 2
    /\ pc = "idle"
    /\ tx = NoTx
    /\ pre = db
    /\ last = NoEv
    /\ login = DOMAIN db.elig
    /\ other = NoOther
    /\ NoUi

NextDash ==
    \/ GetMemberMetrics \/ CacheExpires \/ FetchMemberData
    \/ \E u \in Users : AddMember(u)
    \/ \E u \in Users, c \in Courses, comp \in CompletionDates \cup {NullDate} :
          AddTrainingInvalid(u, c, comp) \/ AddTrainingInsert(u, c, comp)
    \/ AddTrainingDue \/ AddTrainingStatus \/ AddTrainingElig \/ AddTrainingCommit
    \/ \E id \in Ids, comp \in CompletionDates \cup {NullDate} :
          UpdateTrainingBegin(id, comp)
    \/ UpdateTrainingDue \/ UpdateTrainingStatus \/ UpdateTrainingElig
    \/ UpdateTrainingCommit
    \/ \E id \in Ids : DeleteTrainingBegin(id)
    \/ DeleteTrainingDelete \/ DeleteTrainingElig \/ DeleteTrainingCommit
    \/ StatementFails \/ CommitFails
    \/ Return

\* The reads of the dashboard and of the member table next to the
\* operations that change what they show.
SpecDash == InitDash /\ [][NextDash]_vars

(***************************************************************************)
(* One session: server_login and server.  page_content is a render         *)
(* function: it runs again (stale) when a reactive value it has read is    *)
(* set to another value, before the next input of the user is handled.     *)
(* The login button is part of the login page.                             *)
(***************************************************************************)
\* What the user types: a userid or nothing, a password or nothing.
Usernames == Users \cup {NULL}
Passwords == {"default_password", "wrong", NULL}

\* login_data.password: add_member stores 'default_password'; validate_login
\* replaces a plain password by its hash at the first successful login.
StoredPassword(u) == "default_password"

ValidateLoginUserOnly(username, password) == username \in login

\* validate_login: the row of login_data is found and the password is the
\* stored one (compared as text, or verified against the hash).
ValidateLogin(username, password) ==
    /\ username \in login
    /\ password = StoredPassword(username)

\* A reactive value is set: what has read it is invalidated when the value
\* is another one.
Invalidated(ses, field, value) == ses.stale \/ ses[field] # value

SetAuthenticated(ses, value) ==
    [ses EXCEPT !.is_authenticated = value,
                !.stale = Invalidated(ses, "is_authenticated", value)]

\* The user fills in the inputs of the login page.
TypeCredentials(username, password) ==
    /\ Idle /\ phase = "serving" /\ session.page = "login" /\ ~ session.stale
    /\ session' = [session EXCEPT !.username = username, !.password = password]
    /\ UNCHANGED <<phase, catalog, today, db, nextId, pc, tx, pre, last, login,
                   other, personal, hashed, cache>>

\* handle_login with an input left empty: a message, nothing else.
HandleLoginEmpty ==
    /\ Idle /\ phase = "serving" /\ session.page = "login" /\ ~ session.stale
    /\ (session.username = NULL \/ session.password = NULL)
    /\ last' = Ev("handle_login", "empty", 0, session.username, <<>>)
    /\ pre' = db
    /\ pc' = "done"
    /\ UNCHANGED <<phase, catalog, today, db, nextId, tx, login, other, ui>>

\* handle_login: login_attempt is incremented, validate_login decides.  An
\* error of the database inside validate_login makes it return False.
HandleLogin ==
    /\ Idle /\ phase = "serving" /\ session.page = "login" /\ ~ session.stale
    /\ session.username # NULL /\ session.password # NULL
    /\ session.login_attempt < MaxLogins
    /\ pre' = db
    /\ \/ /\ ValidateLogin(session.username, session.password)
          /\ hashed' = hashed \cup {session.username}
          /\ session' = [SetAuthenticated(session, TRUE) EXCEPT
                            !.login_attempt = @ + 1, !.stale = TRUE]
          /\ last' = Ev("handle_login", "ok", 0, session.username, <<>>)
       \/ /\ ~ ValidateLogin(session.username, session.password)
          /\ session' = [SetAuthenticated(session, FALSE) EXCEPT
                            !.login_attempt = @ + 1, !.stale = TRUE]
          /\ last' = Ev("handle_login", "invalid", 0, session.username, <<>>)
          /\ UNCHANGED hashed
       \/ /\ session' = [SetAuthenticated(session, FALSE) EXCEPT
                            !.login_attempt = @ + 1, !.stale = TRUE]
          /\ last' = Ev("handle_login", "failed", 0, session.username, <<>>)
          /\ UNCHANGED hashed
    /\ pc' = "done"
    /\ UNCHANGED <<phase, catalog, today, db, nextId, tx, login, other,
                   personal, cache>>

\* page_content up to the initialization: the login page, the main content,
\* or the three component server functions are to be called.
PageContentBegin ==
    /\ Idle /\ phase = "serving" /\ session.stale
    /\ IF ~ session.is_authenticated
       THEN /\ session' = [session EXCEPT !.stale = FALSE, !.page = "login"]
            /\ pc' = "idle"
       ELSE IF ~ session.initialized
       THEN /\ session' = [session EXCEPT !.stale = FALSE]
            /\ pc' = "server_personal_data"
       ELSE /\ session' = [session EXCEPT !.stale = FALSE, !.page = "main"]
            /\ pc' = "idle"
    /\ UNCHANGED <<phase, catalog, today, db, nextId, tx, pre, last, login, other,
                   personal, hashed, cache>>

Component(p) ==
    IF p = "server_personal_data" THEN "personal"
    ELSE IF p = "server_dashboard_data" THEN "dashboard"
    ELSE "training"

AfterComponent(p) ==
    IF p = "server_personal_data" THEN "server_dashboard_data"
    ELSE IF p = "server_dashboard_data" THEN "server_training_data"
    ELSE "initialized"

InitSteps == {"server_personal_data", "server_dashboard_data", "server_training_data"}

\* server_personal_data / server_dashboard_data / server_training_data is
\* called and returns.
ComponentServer ==
    /\ pc \in InitSteps
    /\ session' = [session EXCEPT !.calls[Component(pc)] = @ + 1]
    /\ pc' = AfterComponent(pc)
    /\ UNCHANGED <<phase, catalog, today, db, nextId, tx, pre, last, login, other,
                   personal, hashed, cache>>

\* The component server function is called and raises: the except clause
\* of page_content sets is_authenticated to False and returns the login page.
ComponentServerRaises ==
    /\ pc \in InitSteps
    /\ session' = [SetAuthenticated(session, FALSE) EXCEPT
                      !.calls[Component(pc)] = @ + 1, !.page = "login"]
    /\ pc' = "idle"
    /\ UNCHANGED <<phase, catalog, today, db, nextId, tx, pre, last, login, other,
                   personal, hashed, cache>>

\* initialized.set(True), then the main content is returned.
PageContentInitialized ==
    /\ pc = "initialized"
    /\ session' = [session EXCEPT !.initialized = TRUE, !.page = "main",
                                  !.stale = Invalidated(session, "initialized", TRUE)]
    /\ pc' = "idle"
    /\ UNCHANGED <<phase, catalog, today, db, nextId, tx, pre, last, login, other,
                   personal, hashed, cache>>

\* _handle_page_change: the navigation of the main content sets
\* current_page, which page_content has read.
HandlePageChange ==
    /\ Idle /\ phase = "serving" /\ session.page = "main" /\ ~ session.stale
    /\ session' = [session EXCEPT !.stale = TRUE]
    /\ UNCHANGED <<phase, catalog, today, db, nextId, pc, tx, pre, last, login,
                   other, personal, hashed, cache>>

InitSession ==
    /\ phase = "serving"
    /\ catalog = ("A" :> 12)
    /\ today = D(2023, 2, 15)
    /\ db \in Seeds
    /\ nextId = 2
    /\ pc = "idle"
    /\ tx = NoTx
    /\ pre = db
    /\ last = NoEv
    /\ login = DOMAIN db.elig
    /\ other = NoOther
    /\ NoUi

NextSession ==
    \/ \E username \in Usernames, password \in Passwords :
          TypeCredentials(username, password)
    \/ HandleLoginEmpty \/ HandleLogin
    \/ PageContentBegin \/ ComponentServer \/ ComponentServerRaises
    \/ PageContentInitialized \/ HandlePageChange
    \/ \E u \in Users : AddMember(u)
    \/ Return

SpecSession == InitSession /\ [][NextSession]_vars

(***************************************************************************)
(* Two processes of the application on one database.  CRUDManager takes no *)
(* lock of its own: what orders two calls is the row locks of PostgreSQL.  *)
(* pc, tx and last are those of the process that takes the next step,      *)
(* other holds those of the process that waits; each runs one call.        *)
(***************************************************************************)
Busy(p) == p \notin {"idle", "done"}

\* The process in flight is descheduled and the other one runs.  mixed
\* records that a process was left between two of its statements while the
\* other still had steps to take.
Switch ==
    /\ pc # "idle" /\ other.pc # "done"
    /\ other' = [pc |-> pc, tx |-> tx, last |-> last,
                 mixed |-> other.mixed \/ Busy(pc)]
    /\ pc' = other.pc
    /\ tx' = other.tx
    /\ last' = other.last
    /\ UNCHANGED <<phase, catalog, today, db, nextId, pre, login, ui>>

Written(t) == DOMAIN t.recs \cup t.del

\* Row locks: two open transactions have not written the same row of
\* training_status_data or of personal_data, nor inserted the same
\* (userid, courseid).
LockFree ==
    /\ Written(tx) \cap Written(other.tx) = {}
    /\ DOMAIN tx.elig \cap DOMAIN other.tx.elig = {}
    /\ \A i \in DOMAIN tx.recs, j \in DOMAIN other.tx.recs :
          ~ (tx.recs[i].userid = other.tx.recs[j].userid
               /\ tx.recs[i].courseid = other.tx.recs[j].courseid)

\* The UPDATE personal_data of _update_member_eligibility waits for an open
\* transaction that has written the member's row.
EligFree ==
    (pc = "elig" /\ tx.op \in {"add_training", "update_training"}) =>
        tx.user \notin DOMAIN other.tx.elig

InitConc ==
    /\ phase = "serving"
    /\ catalog = ("A" :> 12) @@ ("B" :> 1)
    /\ today = D(2023, 2, 15)
    /\ db \in {RecomputeAll(Store(EmptyFn, ("u1" :> "Ineligible"))),
                RecomputeAll(Store((1 :> Row("u1", "A", D(2023, 1, 15), NullDate, NULL)),
                                   ("u1" :> "Ineligible")))}
    /\ nextId = 2
    /\ pc = "idle"
    /\ tx = NoTx
    /\ pre = db
    /\ last = NoEv
    /\ login = DOMAIN db.elig
    /\ NoUi
    /\ other = NoOther

\* A statement runs when it does not have to wait for a lock.
Granted(A) == EligFree /\ A /\ LockFree'

NextConc ==
    \/ \E u \in Users, c \in Courses, comp \in CompletionDates :
          Granted(AddTrainingInsert(u, c, comp))
    \/ Granted(AddTrainingDue) \/ Granted(AddTrainingStatus)
    \/ Granted(AddTrainingElig) \/ Granted(AddTrainingCommit)
    \/ \E id \in Ids, comp \in CompletionDates \cup {NullDate} :
          Granted(UpdateTrainingBegin(id, comp))
    \/ Granted(UpdateTrainingDue) \/ Granted(UpdateTrainingStatus)
    \/ Granted(UpdateTrainingElig) \/ Granted(UpdateTrainingCommit)
    \/ \E id \in Ids : Granted(DeleteTrainingBegin(id))
    \/ Granted(DeleteTrainingDelete) \/ Granted(DeleteTrainingElig)
    \/ Granted(DeleteTrainingCommit)
    \/ Switch

SpecConc == InitConc /\ [][NextConc]_vars

(***************************************************************************)
(* Properties.  A call that has just returned is the state pc = "done":    *)
(* last is what it reported, db the committed store it left, pre the       *)
(* committed store it found.                                               *)
(***************************************************************************)
Ok(op) == pc = "done" /\ last.op = op /\ last.res = "ok"

Raised(op) == pc = "done" /\ last.op = op /\ last.res = "raised"

OkOne == Ok("add_training") \/ Ok("update_training")

DueProjected(r) ==
    (r.completion_date # NullDate /\ r.courseid \in DOMAIN catalog) =>
        /\ r.due_date = AddMonths(r.completion_date, catalog[r.courseid])
        /\ (r.completion_date = D(2023, 1, 15) /\ catalog[r.courseid] = 12)
              => r.due_date = D(2024, 1, 15)

\* C1: after update_training_statuses commits, every row with a completion
\* date whose course is in the catalog has due_date = completion_date +
\* frequency_in_months months (frequency 12, completion 2023-01-15: due
\* 2024-01-15); so has the row recomputed by CRUDManager.add_training and
\* CRUDManager.update_training when they return.
C1_DueDateProjected ==
    /\ Ok("update_training_statuses") =>
          \A i \in DOMAIN db.recs : DueProjected(db.recs[i])
    /\ OkOne => last.id \in DOMAIN db.recs /\ DueProjected(db.recs[last.id])

C1_Witness ==
    /\ Ok("update_training_statuses")
    /\ \E i \in DOMAIN db.recs :
          /\ db.recs[i].completion_date = D(2023, 1, 15)
          /\ db.recs[i].courseid = "A"
          /\ pre.recs[i].due_date # D(2024, 1, 15)
          /\ db.recs[i].due_date = D(2024, 1, 15)

StatusClassified(r) ==
    r.completion_date # NullDate =>
        /\ r.status \in {"Current", "Overdue"}
        /\ r.status = "Current" <=>
              (r.due_date # NullDate /\
                 ( \/ r.due_date.y > today.y
                   \/ r.due_date.y = today.y /\ r.due_date.m > today.m
                   \/ r.due_date.y = today.y /\ r.due_date.m = today.m
                        /\ r.due_date.d >= today.d ))

NullIffNull(r) == (r.completion_date = NullDate) <=> (r.status = NULL)

\* C3: after a recompute, completion_date is null if and only if status is
\* null: for every row after update_training_statuses, for the recomputed
\* row after add_training and update_training.
C3_NullIffNull ==
    /\ Ok("update_training_statuses") =>
          \A i \in DOMAIN db.recs : NullIffNull(db.recs[i])
    /\ OkOne => last.id \in DOMAIN db.recs /\ NullIffNull(db.recs[last.id])

HasCurrent(recs, u, c) ==
    \E i \in DOMAIN recs :
        recs[i].userid = u /\ recs[i].courseid = c /\ recs[i].status = "Current"

\* C4: after update_training_statuses commits, a member is 'Eligible' if and
\* only if for every course of the catalog the member has a row of that
\* course with status 'Current', and 'Ineligible' otherwise.
C4_AllCoursesRequired ==
    Ok("update_training_statuses") =>
        \A u \in DOMAIN db.elig :
            /\ db.elig[u] \in {"Eligible", "Ineligible"}
            /\ db.elig[u] = "Eligible" <=>
                  \A c \in DOMAIN catalog : HasCurrent(db.recs, u, c)

C4_Witness ==
    /\ Ok("update_training_statuses")
    /\ DOMAIN catalog = {"A", "B"}
    /\ \E u \in DOMAIN db.elig :
          /\ db.elig[u] = "Eligible"
          /\ pre.elig[u] = "Ineligible"
          /\ HasCurrent(db.recs, u, "A") /\ HasCurrent(db.recs, u, "B")

RowsOf(recs, u) == {i \in DOMAIN recs : recs[i].userid = u}

\* At least one 'Current' row and no 'Overdue' or null-status row.
PolicyA(recs, u) ==
    /\ \E i \in RowsOf(recs, u) : recs[i].status = "Current"
    /\ ~ \E i \in RowsOf(recs, u) : recs[i].status = "Overdue" \/ recs[i].status = NULL

OneCurrentAlone(recs, u) ==
    /\ Cardinality(RowsOf(recs, u)) = 1
    /\ \A i \in RowsOf(recs, u) : recs[i].status = "Current"

PerMemberRule(e, recs, u) ==
    /\ e = "Eligible" => PolicyA(recs, u)
    /\ OneCurrentAlone(recs, u) => e = "Eligible"

\* C5: the per-member eligibility update of CRUDManager
\* (_update_member_eligibility in add_training / update_training, the inline
\* update of delete_training) makes the member 'Eligible' only if, among the
\* rows the statement reads, the member has a 'Current' row and no 'Overdue'
\* or null-status row; one 'Current' row alone gives 'Eligible'.
C5_PerMemberPolicy ==
    (pc = "commit" /\ tx.user \in DOMAIN db.elig) =>
        /\ tx.op \in {"add_training", "update_training"} =>
              PerMemberRule(db.elig[tx.user], db.recs, tx.user)
        /\ tx.op = "delete_training" =>
              PerMemberRule(ViewElig(db, tx)[tx.user], ViewRecs(db, tx), tx.user)

\* C6: a member without training rows is 'Ineligible': when add_member has
\* created it, and after every recompute (update_training_statuses for any
\* catalog, the per-member update of add_training / update_training /
\* delete_training).
C6_NoRecordsIneligible ==
    /\ Ok("add_member") => db.elig[last.user] = "Ineligible"
    /\ Ok("update_training_statuses") =>
          \A u \in DOMAIN db.elig : RowsOf(db.recs, u) = {} => db.elig[u] = "Ineligible"
    /\ ((OkOne \/ Ok("delete_training"))
          /\ last.user \in DOMAIN db.elig /\ RowsOf(db.recs, last.user) = {})
              => db.elig[last.user] = "Ineligible"

TrainingMutations ==
    {"add_training", "update_training", "delete_training",
     "handle_add_training", "handle_update_training", "handle_delete_training"}

Stages(ran) == {ran[k] : k \in DOMAIN ran}

\* C7: every training create, update and delete path that changed a row of
\* a member has run the recompute for that member when it reports success:
\* due date, status and eligibility on create and update, eligibility on
\* delete.
C7_RecomputeBeforeSuccess ==
    (pc = "done" /\ last.res = "ok" /\ last.op \in TrainingMutations
        /\ last.user \in DOMAIN db.elig) =>
        /\ "elig" \in Stages(last.ran)
        /\ last.op \notin {"delete_training", "handle_delete_training"} =>
              {"due", "status"} \subseteq Stages(last.ran)

\* C8: when add_training or update_training returns successfully, the
\* member's eligibility is the one the per-member rule gives for the member's
\* rows as they stand after the operation.
C8_EligibilityFromResult ==
    (OkOne /\ last.user \in DOMAIN db.elig) =>
        db.elig[last.user] =
            (IF \E i \in RowsOf(db.recs, last.user) : db.recs[i].status = "Overdue"
             THEN "Ineligible"
             ELSE IF RowsOf(db.recs, last.user) = {} THEN "Ineligible"
             ELSE "Eligible")

PassOps ==
    {"update_training_statuses", "add_training", "update_training", "delete_training"}

DerivedUnchanged ==
    /\ db.elig = pre.elig
    /\ \A i \in DOMAIN db.recs \cap DOMAIN pre.recs :
          /\ db.recs[i].due_date = pre.recs[i].due_date
          /\ db.recs[i].status = pre.recs[i].status

\* C9: a recompute pass is atomic: when a stage or the commit fails, none of
\* the pass's writes to due_date, status or eligibility is committed.
C9_FailedPassCommitsNothing ==
    (pc = "done" /\ last.res = "raised" /\ last.op \in PassOps) => DerivedUnchanged

InOrder(ran) ==
    \A k \in DOMAIN ran :
        /\ ran[k] = "status" => \E j \in 1 .. (k - 1) : ran[j] = "due"
        /\ ran[k] = "elig" => \E j \in 1 .. (k - 1) : ran[j] = "status"

Uts == "update_training_statuses"

Requests == TrainingMutations \cup {"add_member", "delete_member", "member_delete_member"}

\* No request is being served or has been served outside the serving phase.
NoRequestUnlessServing ==
    (tx.op \in Requests \/ (pc = "done" /\ last.op \in Requests)) => phase = "serving"

\* The process starts serving only as update_training_statuses returns with
\* its three statements run, and exits as it raises.
ServingOnlyAfterPass ==
    /\ (phase # "serving" /\ phase' = "serving") =>
          (pc' = "done" /\ last'.op = Uts /\ last'.res = "ok"
             /\ last'.ran = <<"due", "status", "elig">>)
    /\ (pc # "done" /\ pc' = "done" /\ last'.op = Uts /\ last'.res = "raised") =>
          phase' = "exited"
    /\ (phase = "exited" /\ phase' # "exited") => phase' = "startup"

\* C11: at start-up update_training_statuses runs to completion before any
\* request is served, and when it raises the process exits without serving
\* any request.
C11_StartupBeforeServing ==
    [](NoRequestUnlessServing) /\ [][ServingOnlyAfterPass]_vars

C11_Witness == phase = "exited" /\ Raised(Uts) /\ last.ran = <<"due">>

\* C12: update_training_statuses is idempotent: run again on the store it
\* has just committed, with the same current date, it leaves every due_date,
\* status and eligibility as they are (the pass is the function RecomputeAll
\* of the store it found).
C12_Idempotent ==
    Ok(Uts) => (db = RecomputeAll(pre) /\ RecomputeAll(db) = db)

\* A pass that found a store a pass had already brought up to date.
C12_Witness ==
    /\ Ok(Uts)
    /\ pre = RecomputeAll(pre)
    /\ db = pre
    /\ \E i \in DOMAIN db.recs : db.recs[i].status = "Current"
    /\ \E i \in DOMAIN db.recs : db.recs[i].status = "Overdue"
    /\ \E u \in DOMAIN db.elig : db.elig[u] = "Ineligible"

\* C13: on every store, whenever the full-table rule of
\* update_training_statuses gives 'Eligible' for a member, the per-member
\* rules of CRUDManager (_update_member_eligibility, delete_training) give
\* 'Eligible' too.
C13_FullTableImpliesPerMember ==
    \A u \in DOMAIN db.elig :
        AllCoursesCase(db.recs, u) = "Eligible" =>
            /\ MemberEligibilityCase(db.recs, u) = "Eligible"
            /\ DeleteEligibilityCase(db.recs, u) = "Eligible"

\* C14: on every store (here: with at least one course in the catalog) the
\* three statements that write a member's eligibility compute the same value.
C14_OnePolicy ==
    DOMAIN catalog # {} =>
        \A u \in DOMAIN db.elig :
            /\ AllCoursesCase(db.recs, u) = MemberEligibilityCase(db.recs, u)
            /\ MemberEligibilityCase(db.recs, u) = DeleteEligibilityCase(db.recs, u)

PassOf == IF pc = "done" THEN last.op ELSE tx.op

DueWrittenByPass(i) ==
    \/ i \notin DOMAIN pre.recs /\ db.recs[i].due_date # NullDate
    \/ i \in DOMAIN pre.recs /\ db.recs[i].due_date # pre.recs[i].due_date

\* C15: no committed state shows a due_date written by a pass
\* (update_training_statuses, add_training, update_training) next to a status
\* or an owner's eligibility that is not the one the pass derives from it.
C15_NoHalfUpdatedPass ==
    PassOf \in {Uts, "add_training", "update_training"} =>
        \A i \in DOMAIN db.recs :
            DueWrittenByPass(i) =>
                /\ StatusClassified(db.recs[i])
                /\ db.recs[i].userid \in DOMAIN db.elig =>
                      db.elig[db.recs[i].userid] =
                          (IF PassOf = Uts
                           THEN AllCoursesCase(db.recs, db.recs[i].userid)
                           ELSE MemberEligibilityCase(db.recs, db.recs[i].userid))

FullRun(op) == IF op = "delete_training" THEN <<"elig">> ELSE <<"due", "status", "elig">>

\* C17: a failing statement of a recompute ends the pass and reaches the
\* caller as an exception: a pass (update_training_statuses, add_training,
\* update_training, delete_training, with _update_member_eligibility as
\* their eligibility statement) that reports success has run all its
\* statements, and a pass that ends between its statements ends raising.
C17_FailureSurfaced ==
    /\ []((pc = "done" /\ last.op \in PassOps /\ last.res = "ok") =>
             last.ran = FullRun(last.op))
    /\ [][(pc \in {"due", "status", "elig", "delete"} /\ tx.op \in PassOps
              /\ pc' = "done") =>
             (last'.res = "raised" /\ last'.op = tx.op /\ tx' = NoTx)]_vars

C17_Witness ==
    /\ Raised("update_training")
    /\ last.ran = <<"due", "status">>
    /\ db = pre

Deleted(op) == pc = "done" /\ last.op = op /\ last.res = "ok" /\ last.user \in DOMAIN pre.elig

\* C19: when delete_member (CRUDManager, MemberCRUDManager) reports success
\* for an existing member, the member's row of personal_data, its training
\* rows and its login row are gone, no training row names a member that does
\* not exist, and the rows of the other members are as they were.
C19_DeleteMemberCascades ==
    (Deleted("delete_member") \/ Deleted("member_delete_member")) =>
        /\ last.user \notin DOMAIN db.elig
        /\ last.user \notin login
        /\ MemberRows(db.recs, last.user) = {}
        /\ \A i \in DOMAIN db.recs : db.recs[i].userid \in DOMAIN db.elig
        /\ DOMAIN db.elig = DOMAIN pre.elig \ {last.user}
        /\ login = DOMAIN pre.elig \ {last.user}
        /\ \A m \in DOMAIN db.elig : db.elig[m] = pre.elig[m]
        /\ DOMAIN db.recs = DOMAIN pre.recs \ MemberRows(pre.recs, last.user)
        /\ \A i \in DOMAIN db.recs : db.recs[i] = pre.recs[i]

C19_Witness ==
    /\ Deleted("delete_member")
    /\ MemberRows(pre.recs, last.user) # {}
    /\ DOMAIN db.recs # {}

Unresolved(u, c) == u \notin login \/ c \notin DOMAIN catalog

Dangling(recs) ==
    {i \in DOMAIN recs :
        recs[i].courseid \notin DOMAIN catalog /\ recs[i].completion_date # NullDate}

CrudTraining == {"add_training", "update_training", "delete_training"}

BothReturned ==
    /\ pc = "done" /\ other.pc = "done" /\ other.mixed
    /\ last.res = "ok" /\ other.last.res = "ok"
    /\ last.op \in CrudTraining /\ other.last.op \in CrudTraining
    /\ last.user = other.last.user
    /\ last.user \in DOMAIN db.elig

UpToDate(u) ==
    /\ db.elig[u] \in {MemberEligibilityCase(db.recs, u), DeleteEligibilityCase(db.recs, u)}
    /\ \A i \in MemberRows(db.recs, u) : db.recs[i] = StatusOne(DueOne(db.recs[i]))

\* C16: when two training operations of CRUDManager on the same member have
\* interleaved their statements and both have returned, the member's
\* eligibility is what a per-member rule gives for the rows now stored, and
\* every row of the member carries the due date and status its recompute
\* gives.
C16_NoLostUpdate == BothReturned => UpToDate(last.user)

(***************************************************************************)
(* Update and delete of a training record by id.                           *)
(***************************************************************************)
ByIdOps ==
    {"update_training", "delete_training",
     "update_training_record", "delete_training_record"}

\* C21: an update or a delete of a training record by id that returns
\* reports True exactly when a record with that id existed, and for an id
\* that names no record it reports False and leaves every training record
\* and every member's eligibility as it found them.
C21_FalseMeansUntouched ==
    (pc = "done" /\ last.op \in ByIdOps /\ last.res # "raised") =>
        /\ (last.res = "ok") <=> (last.id \in DOMAIN pre.recs)
        /\ (last.res = "false") => (db = pre)

(***************************************************************************)
(* Validation of the required fields.                                      *)
(***************************************************************************)
\* The call ends at once with an exception and has written nothing.
Rejected ==
    /\ pc' = "done" /\ last'.res = "raised"
    /\ db' = db /\ personal' = personal /\ login' = login

TrainingInputs ==
    [userid : Users, courseid : Courses,
     completion_date : CompletionDates \cup {NullDate}]

\* C22: a call of CRUDManager.add_member, update_member, add_training or
\* update_training whose data lacks a required field (first_name, last_name,
\* email of a member; userid, courseid, completion_date of a training record)
\* is rejected with an exception before anything is written: the store is
\* left as it was.
C22_MissingFieldRejected ==
    [][ /\ \A data \in MemberInputs :
              MissingFields(data, MemberFields) # {} =>
                  /\ (AddMemberInvalid(data) \/ AddMemberBegin(data)) => Rejected
                  /\ \A u \in Users : UpdateMember(u, data) => Rejected
        /\ \A data \in TrainingInputs :
              MissingFields(data, {"userid", "courseid", "completion_date"}) # {} =>
                  /\ (\/ AddTrainingInvalid(data.userid, data.courseid,
                                            data.completion_date)
                      \/ AddTrainingInsert(data.userid, data.courseid,
                                           data.completion_date)) => Rejected
                  /\ \A id \in Ids :
                        UpdateTrainingBegin(id, data.completion_date) => Rejected
      ]_vars

(***************************************************************************)
(* One training record for a member and a course.                          *)
(***************************************************************************)
Creates == {"add_training", "add_training_record", "handle_add_training"}

\* C23: whatever training records are created, updated and deleted, the
\* store never holds two training records of the same member for the same
\* course: a create for a pair that has a record adds none.
C23_OneRecordPerPair ==
    \A i, j \in DOMAIN db.recs :
        (db.recs[i].userid = db.recs[j].userid
           /\ db.recs[i].courseid = db.recs[j].courseid) => i = j

\* A create has been refused for a member who has a login row and a record
\* already, and the store holds what it held.
C23_Witness ==
    /\ pc = "done" /\ last.op \in Creates /\ last.res = "raised"
    /\ last.user \in login
    /\ \E i \in DOMAIN db.recs : db.recs[i].userid = last.user
    /\ nextId > 2
    /\ db = pre

(***************************************************************************)
(* What the user interface shows.                                          *)
(***************************************************************************)
Reads == {"get_member_metrics", "fetch_member_data"}

\* C24: a read of the user interface that succeeds returns what the store
\* holds now: get_member_metrics the numbers of 'Eligible' and of
\* 'Ineligible' members of personal_data, fetch_member_data every member
\* with its present eligibility.
C24_ReadsSeeStore ==
    /\ (pc = "done" /\ last.op = "get_member_metrics" /\ last.res = "ok") =>
         /\ session.metrics.eligible = CountMembers(db.elig).eligible
         /\ session.metrics.ineligible = CountMembers(db.elig).ineligible
    /\ (pc = "done" /\ last.op = "fetch_member_data" /\ last.res = "ok") =>
         /\ DOMAIN session.member_data = DOMAIN db.elig
         /\ \A u \in DOMAIN db.elig :
               session.member_data[u].eligibility = db.elig[u]

(***************************************************************************)
(* A deletion of a member that reports failure.                            *)
(***************************************************************************)
DeleteMemberOps == {"delete_member", "member_delete_member"}

\* C25: when delete_member (of CRUDManager or of MemberCRUDManager) returns
\* False, the store holds what it held when the call began: no member, no
\* training record and no login row has been removed.
C25_FalseDeletesNothing ==
    (pc = "done" /\ last.op \in DeleteMemberOps /\ last.res = "false") =>
        /\ db = pre
        /\ DOMAIN personal = DOMAIN pre.elig
        /\ DOMAIN pre.elig \subseteq login

(***************************************************************************)
(* The initialization of a session.                                        *)
(***************************************************************************)
Components == {"personal", "dashboard", "training"}

CalledAtMostOnce == \A c \in Components : session.calls[c] <= 1

InitializedAfterAll ==
    (~ session.initialized /\ session'.initialized) =>
        \A c \in Components : session.calls[c] >= 1

FailureLogsOut ==
    ComponentServerRaises => (~ session'.is_authenticated /\ ~ session'.initialized)

\* C26: in one session each of server_personal_data, server_dashboard_data
\* and server_training_data is called at most once, whatever logins,
\* failures of the initialization and renderings of page_content take place;
\* initialized becomes true only after the three have been called and have
\* returned; a failure of the initialization leaves the session
\* unauthenticated.
C26_ComponentsOnce ==
    /\ [] CalledAtMostOnce
    /\ [][InitializedAfterAll]_vars
    /\ [][FailureLogsOut]_vars

(***************************************************************************)
(* Authentication.                                                         *)
(***************************************************************************)
MainOnlyIfAuthenticated == session.page = "main" => session.is_authenticated

\* is_authenticated goes from false to true in a step of handle_login for
\* a userid of login_data typed with its password.
AuthenticatedByLogin ==
    (~ session.is_authenticated /\ session'.is_authenticated) =>
        /\ HandleLogin
        /\ session.username \in login
        /\ session.password = "default_password"
        /\ last'.res = "ok"

\* A login that is refused or that fails leaves is_authenticated false.
FailedLoginStaysOut ==
    (pc' = "done" /\ last'.op = "handle_login" /\ last'.res # "ok") =>
        ~ session'.is_authenticated

\* C27: page_content returns the main content only when is_authenticated is
\* true; is_authenticated becomes true only in handle_login, when
\* validate_login has accepted the userid and the password; a login that is
\* refused or that fails leaves it false.
C27_MainOnlyAfterLogin ==
    /\ [] MainOnlyIfAuthenticated
    /\ [][AuthenticatedByLogin]_vars
    /\ [][FailedLoginStaysOut]_vars

\* The main content is on the screen after the second login attempt of
\* the session.
C27_Witness ==
    /\ session.page = "main" /\ session.is_authenticated
    /\ session.login_attempt = 2
    /\ hashed # {}

(***************************************************************************)
(* What the full pass may write.                                           *)
(***************************************************************************)
\* Store b has the members and the training records of store a, each record
\* with the member, the course and the completion date it has in a.
SameButDerived(a, b) ==
    /\ DOMAIN b.elig = DOMAIN a.elig
    /\ DOMAIN b.recs = DOMAIN a.recs
    /\ \A i \in DOMAIN a.recs :
          /\ b.recs[i].userid = a.recs[i].userid
          /\ b.recs[i].courseid = a.recs[i].courseid
          /\ b.recs[i].completion_date = a.recs[i].completion_date

\* C28: update_training_statuses writes due_date, status and eligibility
\* only: after each of its statements and after its commit the store has the
\* members and the training records it had, each with its member, course and
\* completion date, the catalog, the login rows and the names are the same.
C28_PassWritesDerivedOnly ==
    /\ [] (tx.op = Uts => SameButDerived(pre, View(db, tx)))
    /\ [] ((pc = "done" /\ last.op = Uts) => SameButDerived(pre, db))
    /\ [][(tx.op = Uts \/ tx'.op = Uts) =>
             (catalog' = catalog /\ login' = login /\ personal' = personal)]_vars

\* A pass has committed and has changed a due date.
C28_Witness ==
    /\ pc = "done" /\ last.op = Uts /\ last.res = "ok"
    /\ \E i \in DOMAIN db.recs : db.recs[i].due_date # pre.recs[i].due_date

(***************************************************************************)
(* What an operation on one training record may write.                     *)
(***************************************************************************)
RecordOps == {"add_training", "update_training", "delete_training"}

\* C29: when add_training, update_training or delete_training of
\* CRUDManager has returned or raised, every member other than the one
\* whose record it was called for has the eligibility it had, and every
\* training record other than that record is still there with the
\* completion date, the due date and the status it had.
C29_OthersUntouched ==
    (pc = "done" /\ last.op \in RecordOps) =>
        /\ \A u \in DOMAIN pre.elig \ {last.user} :
              u \in DOMAIN db.elig /\ db.elig[u] = pre.elig[u]
        /\ \A i \in DOMAIN pre.recs \ {last.id} :
              i \in DOMAIN db.recs /\ db.recs[i] = pre.recs[i]

\* An operation on a record of one member has succeeded while another
\* member had a training record.
C29_Witness ==
    /\ pc = "done" /\ last.op \in RecordOps /\ last.res = "ok"
    /\ db # pre
    /\ \E i \in DOMAIN pre.recs : i # last.id /\ pre.recs[i].userid # last.user

(***************************************************************************)
(* The creation of a member.                                               *)
(***************************************************************************)
NothingCreated ==
    login' = login /\ personal' = personal /\ db' = db

BothCreated ==
    /\ tx.user \notin login /\ tx.user \notin DOMAIN personal
    /\ login' = login \cup {tx.user}
    /\ personal' = (tx.user :> tx.person[tx.user]) @@ personal
    /\ db' = [db EXCEPT !.elig = (tx.user :> "Ineligible") @@ @]
    /\ last'.res = "ok" /\ last'.user = tx.user

\* C30: add_member (of CRUDManager and of MemberCRUDManager) creates the
\* login row and the member row together or creates neither: each of its
\* steps leaves the committed tables as they are, except the commit, which
\* adds both rows for a userid that had neither; when the generated userid
\* is that of an existing login row the call raises and every row is as it
\* was.
C30_AddMemberAllOrNothing ==
    /\ [][tx.op \in AddMemberOps => (NothingCreated \/ BothCreated)]_vars
    /\ [][(tx.op \in AddMemberOps /\ tx.user \in login /\ pc = "ins_login") =>
             (NothingCreated /\ last'.res = "raised")]_vars
    /\ [] ((pc = "done" /\ last.op \in AddMemberOps /\ last.res = "raised") =>
             db = pre)

\* An add_member has raised because its userid has a login row.
C30_Witness ==
    /\ pc = "done" /\ last.op \in AddMemberOps /\ last.res = "raised"
    /\ last.user \in login
    /\ last.user \in DOMAIN personal
    /\ personal[last.user] = PersonOf(last.user)
====
